---------------------------- MODULE Spec2Model ----------------------------
(***************************************************************************)
(* TodoApp: the request gate (lib/supabase/middleware.ts), the /api/todos  *)
(* route handlers (app/api/todos/route.ts) and the TodoList / TodoForm     *)
(* client components (app/(dashboard)/todos/page.tsx).                     *)
(*                                                                         *)
(* GateSpec is the request gate in front of a browser that keeps a session *)
(* cookie.  Spec is one browser tab showing the todos page, talking to     *)
(* the /api/todos handlers over an asynchronous network.                   *)
(***************************************************************************)
EXTENDS Integers, Sequences, FiniteSets, TLC

VARIABLES
    \* ---- request gate ----
    browserCookie,  \* the session credential the browser holds
    nav,            \* the path the browser was redirected to, "" when none
    gpc,            \* updateSession: "idle", "awaitGetUser" or "returned"
    request,        \* the NextRequest: pathname and cookies
    response,       \* updateSession's local `response`
    gwOutcome,      \* what supabase.auth.getUser() resolved to
    result,         \* the response updateSession returned
    prev            \* the run of updateSession before this one

gateVars == <<browserCookie, nav, gpc, request, response, gwOutcome, result,
              prev>>

VARIABLES
    \* ---- the todos table behind /api/todos ----
    db,             \* the rows of the todos table
    clock,          \* the database's NOW()
    nextId,         \* the next id uuid_generate_v4() hands out
    \* ---- TodosPage / TodoForm / TodoList component state ----
    refreshKey,     \* TodosPage: refreshKey
    effectKey,      \* the refreshKey TodoList's effect last ran for
    formLoading,    \* TodoForm: loading
    success,        \* TodoForm: success
    todos,          \* TodoList: todos
    loading,        \* TodoList: loading
    deletingId,     \* TodoList: deletingId
    editingId,      \* TodoList: editingId
    editForm,       \* TodoList: editForm
    updating,       \* TodoList: updating
    lastAlert,      \* the last alert() shown and the call it reports
    \* ---- remote calls in flight ----
    pending,        \* the calls awaited by a handler, with their closures
    seq,            \* the number of calls issued so far
    mutations,      \* the number of create/update/delete calls issued
    newestApplied   \* the newest fetch whose response was written to todos

serverVars == <<db, clock, nextId>>
clientVars == <<refreshKey, effectKey, formLoading, success, todos, loading,
                deletingId, editingId, editForm, updating, lastAlert,
                pending, seq, mutations, newestApplied>>

VARIABLES
    \* ---- direct callers of /api/todos ----
    apiCall,        \* the last request a handler answered, and its answer
    calls,          \* the number of requests answered so far
    \* ---- useAuthStore (lib/stores/auth-store.ts) ----
    authUser,       \* AuthState.user
    authLoading,    \* AuthState.loading
    storeLog        \* the store actions called so far, oldest first

apiVars == <<apiCall, calls>>
storeVars == <<authUser, authLoading, storeLog>>

vars == <<gateVars, serverVars, clientVars, apiVars, storeVars>>

-----------------------------------------------------------------------------
(* Strings *)

\* String.prototype.startsWith
StartsWith(s, prefix) ==
    /\ Len(s) >= Len(prefix)
    /\ SubSeq(s, 1, Len(prefix)) = prefix

-----------------------------------------------------------------------------
(* The request gate: lib/supabase/middleware.ts *)

NoUser == "null"
Unset == "unset"        \* a response that carries no Set-Cookie
Cleared == ""           \* a Set-Cookie that removes the session cookie

\* Session credentials a browser can hold: none, a valid access token, an
\* access token about to expire (its refresh token still good), a revoked one.
Creds == {"none", "valid", "expiring", "invalid"}

\* Page and API paths.
Paths == {"/", "/todos", "/todos/1", "/login", "/register", "/dashboard",
          "/api/todos", "/about"}

\* Paths of files: assets the matcher names, and file-like paths near them.
AssetPaths == {"/_next/static/app.js", "/_next/image", "/favicon.ico",
               "/favicon.icons", "/logo.svg", "/todos/a.png",
               "/todos/report.pdf"}

\* Every path a browser asks for.
RequestPaths == Paths \cup AssetPaths

\* String.prototype.endsWith
EndsWith(s, suffix) ==
    /\ Len(s) >= Len(suffix)
    /\ SubSeq(s, Len(s) - Len(suffix) + 1, Len(s)) = suffix

ImageExtensions == {".svg", ".png", ".jpg", ".jpeg", ".gif", ".webp"}

\* The alternatives of the matcher's negative lookahead, tried on what
\* follows the leading "/": three prefixes (the "." of favicon.ico is an
\* unescaped pattern dot, one arbitrary character) and the extension test
\* anchored at the end of the path.
LookaheadMatches(rest) ==
    \/ StartsWith(rest, "_next/static")
    \/ StartsWith(rest, "_next/image")
    \/ /\ Len(rest) >= 11
       /\ SubSeq(rest, 1, 7) = "favicon"
       /\ SubSeq(rest, 9, 11) = "ico"
    \/ \E ext \in ImageExtensions : EndsWith(rest, ext)

\* The matcher without its extension alternative
MatcherWithoutExtensions(pathname) ==
    /\ StartsWith(pathname, "/")
    /\ LET rest == SubSeq(pathname, 2, Len(pathname))
       IN ~(\/ StartsWith(rest, "_next/static")
            \/ StartsWith(rest, "_next/image")
            \/ /\ Len(rest) >= 11
               /\ SubSeq(rest, 1, 7) = "favicon"
               /\ SubSeq(rest, 9, 11) = "ico")

\* config.matcher: whether middleware() runs for the path
Matcher(pathname) ==
    /\ StartsWith(pathname, "/")
    /\ ~LookaheadMatches(SubSeq(pathname, 2, Len(pathname)))

NoRequest == [pathname |-> "", cookies |-> "none"]
NoResponse == [kind |-> "none", location |-> "", cookies |-> Unset]
NoOutcome == [user |-> NoUser, error |-> FALSE, cookiesToSet |-> Unset,
              resolved |-> FALSE]

\* NextResponse.next({ request })
NextResponseNext == [kind |-> "next", location |-> "", cookies |-> Unset]

\* NextResponse.redirect(new URL(path, request.url))
NextResponseRedirect(path) ==
    [kind |-> "redirect", location |-> path, cookies |-> Unset]

\* getUser replaced by a read of the cookie with no validation round trip
\* (what getSession() does): a failed call still reports the cookie's user.
GetUserFromCookie(cookie) ==
    {[user |-> IF cookie = "none" THEN NoUser ELSE "u1", error |-> TRUE,
      cookiesToSet |-> Unset, resolved |-> TRUE]}
    \cup
    CASE cookie \in {"valid", "expiring", "invalid"} ->
           {[user |-> "u1", error |-> FALSE, cookiesToSet |-> Unset,
             resolved |-> TRUE]}
      [] OTHER -> {}

\* supabase.auth.getUser(): validates the credential with the auth server.
\* It resolves to { data: { user }, error }; a failed call (network, timeout)
\* resolves with user null and an error.  A refresh hands the new cookies to
\* cookies.setAll.
GetUser(cookie) ==
    {[user |-> NoUser, error |-> TRUE, cookiesToSet |-> Unset, resolved |-> TRUE]}
    \cup
    CASE cookie = "valid" ->
           {[user |-> "u1", error |-> FALSE, cookiesToSet |-> Unset,
             resolved |-> TRUE]}
      [] cookie = "expiring" ->
           {[user |-> "u1", error |-> FALSE, cookiesToSet |-> "valid",
             resolved |-> TRUE]}
      [] cookie = "invalid" ->
           {[user |-> NoUser, error |-> TRUE, cookiesToSet |-> Cleared,
             resolved |-> TRUE]}
      [] OTHER -> {}

\* Everything getUser can resolve to.
GetUserOutcomes == UNION {GetUser(cookie) : cookie \in Creds}

\* cookies.setAll(cookiesToSet): the new `response`
SetAllResponse(cookiesToSet) ==
    [NextResponseNext EXCEPT !.cookies = cookiesToSet]

\* cookies.setAll(cookiesToSet): request.cookies.set(name, value)
SetAllRequest(req, cookiesToSet) ==
    [req EXCEPT !.cookies = IF cookiesToSet = Cleared THEN "none"
                            ELSE cookiesToSet]

\* The protected-route test as an exact match instead of a prefix test
IsProtectedExact(pathname) == pathname = "/todos"

\* STEP 4: the protected-route test
IsProtected(pathname) == StartsWith(pathname, "/todos")

\* The login/register test with the register branch left out
IsPublicOnlyLogin(pathname) == StartsWith(pathname, "/login")

\* The login/register test answering yes for every path
IsPublicOnlyEverywhere(pathname) == StartsWith(pathname, "/")

\* STEP 5: the login/register test
IsPublicOnly(pathname) ==
    StartsWith(pathname, "/login") \/ StartsWith(pathname, "/register")

\* STEP 4 sending every request without a user to /login, whatever the path
DecideProtectAll(user, pathname, resp) ==
    IF user = NoUser
    THEN NextResponseRedirect("/login")
    ELSE IF IsPublicOnly(pathname)
         THEN NextResponseRedirect("/todos")
         ELSE resp

\* STEP 4..6 returning `response` whenever setAll has put cookies on it
DecideKeepRefreshed(user, pathname, resp) ==
    IF resp.cookies # Unset THEN resp
    ELSE IF user = NoUser /\ IsProtected(pathname)
    THEN NextResponseRedirect("/login")
    ELSE IF user # NoUser /\ IsPublicOnly(pathname)
         THEN NextResponseRedirect("/todos")
         ELSE resp

\* STEP 4..6: what updateSession returns once getUser has resolved
Decide(user, pathname, resp) ==
    IF user = NoUser /\ IsProtected(pathname)
    THEN NextResponseRedirect("/login")
    ELSE IF user # NoUser /\ IsPublicOnly(pathname)
         THEN NextResponseRedirect("/todos")
         ELSE resp

\* A finished run of updateSession: the path asked for, the user validation
\* gave, whether it refreshed the credential, and the decision returned.
RunOf(req, outcome, res) ==
    [done |-> TRUE, pathname |-> req.pathname, user |-> outcome.user,
     refreshed |-> outcome.cookiesToSet \notin {Unset, Cleared},
     kind |-> res.kind, location |-> res.location]

NoRun == [done |-> FALSE, pathname |-> "", user |-> NoUser,
          refreshed |-> FALSE, kind |-> "none", location |-> ""]

\* A request the matcher excludes: middleware() does not run and the file is
\* served as it is.
MatcherExcludes(p) ==
    /\ gpc = "idle"
    /\ nav \in {"", p}
    /\ ~Matcher(p)
    /\ request' = [pathname |-> p, cookies |-> browserCookie]
    /\ response' = NoResponse
    /\ gwOutcome' = NoOutcome
    /\ result' = NoResponse
    /\ gpc' = "served"
    /\ nav' = ""
    /\ prev' = IF gwOutcome.resolved THEN RunOf(request, gwOutcome, result)
               ELSE prev
    /\ UNCHANGED browserCookie
    /\ UNCHANGED <<serverVars, clientVars, apiVars, storeVars>>

\* middleware(): updateSession up to `await supabase.auth.getUser()`
UpdateSessionStart(p) ==
    /\ gpc = "idle"
    /\ nav \in {"", p}
    /\ Matcher(p)
    /\ request' = [pathname |-> p, cookies |-> browserCookie]
    /\ response' = NextResponseNext
    /\ gwOutcome' = NoOutcome
    /\ result' = NoResponse
    /\ gpc' = "awaitGetUser"
    /\ nav' = ""
    /\ prev' = IF gwOutcome.resolved THEN RunOf(request, gwOutcome, result)
               ELSE prev
    /\ UNCHANGED browserCookie
    /\ UNCHANGED <<serverVars, clientVars, apiVars, storeVars>>

\* getUser resolves (calling setAll when it refreshed), then STEP 4..6
UpdateSessionFinish(o) ==
    /\ gpc = "awaitGetUser"
    /\ o \in GetUser(request.cookies)
    /\ gwOutcome' = o
    /\ LET refreshed == o.cookiesToSet # Unset
           req == IF refreshed THEN SetAllRequest(request, o.cookiesToSet)
                  ELSE request
           resp == IF refreshed THEN SetAllResponse(o.cookiesToSet)
                   ELSE response
       IN /\ request' = req
          /\ response' = resp
          /\ result' = Decide(o.user, req.pathname, resp)
    /\ gpc' = "returned"
    /\ UNCHANGED <<browserCookie, nav, prev>>
    /\ UNCHANGED <<serverVars, clientVars, apiVars, storeVars>>

\* The browser takes the response: it stores a Set-Cookie and follows a
\* redirect.
BrowserReceive ==
    /\ gpc \in {"returned", "served"}
    /\ browserCookie' = IF result.cookies = Unset THEN browserCookie
                        ELSE IF result.cookies = Cleared THEN "none"
                        ELSE result.cookies
    /\ nav' = IF result.kind = "redirect" THEN result.location ELSE ""
    /\ gpc' = "idle"
    /\ UNCHANGED <<request, response, gwOutcome, result, prev>>
    /\ UNCHANGED <<serverVars, clientVars, apiVars, storeVars>>

\* The access token nears its expiry.
TokenAges ==
    /\ gpc = "idle"
    /\ browserCookie = "valid"
    /\ browserCookie' = "expiring"
    /\ UNCHANGED <<nav, gpc, request, response, gwOutcome, result, prev>>
    /\ UNCHANGED <<serverVars, clientVars, apiVars, storeVars>>

\* loginUser: signInWithPassword stores a fresh session cookie.
SignIn ==
    /\ gpc = "idle"
    /\ browserCookie \in {"none", "invalid"}
    /\ browserCookie' = "valid"
    /\ UNCHANGED <<nav, gpc, request, response, gwOutcome, result, prev>>
    /\ UNCHANGED <<serverVars, clientVars, apiVars, storeVars>>

\* The session is revoked out of band; the browser still holds the cookie.
Revoke ==
    /\ gpc = "idle"
    /\ browserCookie \in {"valid", "expiring"}
    /\ browserCookie' = "invalid"
    /\ UNCHANGED <<nav, gpc, request, response, gwOutcome, result, prev>>
    /\ UNCHANGED <<serverVars, clientVars, apiVars, storeVars>>

-----------------------------------------------------------------------------
(* The todos table and the /api/todos route handlers: app/api/todos/route.ts *)

Null == "NULL"          \* SQL NULL / JSON null
Undef == "undefined"    \* a field the JSON body does not carry
NoId == 0               \* no id (null), falsy like a missing id

Priorities == {"low", "medium", "high"}

NoRow == [id |-> NoId, user_id |-> NoUser, title |-> "", description |-> Null,
          priority |-> "medium", due_date |-> Null, completed |-> FALSE,
          created_at |-> 0, updated_at |-> 0]

\* A JSON request body; completed travels as the JSON text true / false.
NoBody == [id |-> NoId, title |-> Undef, description |-> Undef,
           priority |-> Undef, due_date |-> Undef, completed |-> Undef,
           user_id |-> Undef]

\* An HTTP response: status, and the JSON body as a row list or one row.
Response(status, rows, row) == [status |-> status, rows |-> rows, row |-> row]

NoResp == Response(0, <<>>, NoRow)

\* The column types and constraints of CREATE TABLE todos: title NOT NULL,
\* priority CHECK (... IN ('low','medium','high')), due_date a timestamp
\* (the empty string is not one) or NULL.
DbAccepts(row) ==
    /\ row.title # Null
    /\ row.priority \in Priorities
    /\ row.due_date = Null \/ row.due_date # ""

\* .order('created_at', { ascending: false })
RECURSIVE OrderByCreatedDesc(_)
OrderByCreatedDesc(rows) ==
    IF rows = {} THEN <<>>
    ELSE LET newest == CHOOSE r \in rows :
                           \A q \in rows : q.created_at <= r.created_at
         IN <<newest>> \o OrderByCreatedDesc(rows \ {newest})

\* A handler's outcome: the HTTP response and the table afterwards.
Outcome(resp, rows) == [resp |-> resp, db |-> rows]

\* GET: the caller's rows, newest first
GET(user, rows) ==
    IF user = NoUser THEN Outcome(Response(401, <<>>, NoRow), rows)
    ELSE Outcome(Response(200,
                          OrderByCreatedDesc({r \in rows : r.user_id = user}),
                          NoRow),
                 rows)

\* The inserted row with the priority default taken as 'low'
InsertedRowLowDefault(user, body, id, now) ==
    [id |-> id, user_id |-> user, title |-> body.title,
     description |-> IF body.description = Undef THEN Null
                     ELSE body.description,
     priority |-> IF body.priority = Undef THEN "low" ELSE body.priority,
     due_date |-> IF body.due_date = Undef THEN Null ELSE body.due_date,
     completed |-> FALSE, created_at |-> now, updated_at |-> now]

\* The row .insert({ user_id, title, description, priority, due_date })
\* builds: a field left undefined takes the column default.
InsertedRow(user, body, id, now) ==
    [id |-> id, user_id |-> user, title |-> body.title,
     description |-> IF body.description = Undef THEN Null
                     ELSE body.description,
     priority |-> IF body.priority = Undef THEN "medium" ELSE body.priority,
     due_date |-> IF body.due_date = Undef THEN Null ELSE body.due_date,
     completed |-> FALSE, created_at |-> now, updated_at |-> now]

\* POST checking the body before the session
POSTValidatesFirst(user, body, rows, id, now) ==
    IF body.title \in {Undef, Null, ""}
    THEN Outcome(Response(400, <<>>, NoRow), rows)
    ELSE IF user = NoUser THEN Outcome(Response(401, <<>>, NoRow), rows)
    ELSE LET row == InsertedRow(user, body, id, now)
         IN IF ~DbAccepts(row) THEN Outcome(Response(500, <<>>, NoRow), rows)
            ELSE Outcome(Response(201, <<>>, NoRow), rows \cup {row})

\* POST: insert a row owned by the caller; the insert has no .select(), so
\* the 201 body is null
POST(user, body, rows, id, now) ==
    IF user = NoUser THEN Outcome(Response(401, <<>>, NoRow), rows)
    ELSE IF body.title \in {Undef, Null, ""}
    THEN Outcome(Response(400, <<>>, NoRow), rows)
    ELSE LET row == InsertedRow(user, body, id, now)
         IN IF ~DbAccepts(row) THEN Outcome(Response(500, <<>>, NoRow), rows)
            ELSE Outcome(Response(201, <<>>, NoRow), rows \cup {row})

\* updateData taking user_id from the body as well
UpdateDataWithOwner(row, body) ==
    [row EXCEPT
       !.title = IF body.title # Undef THEN body.title ELSE @,
       !.description = IF body.description # Undef THEN body.description ELSE @,
       !.priority = IF body.priority # Undef THEN body.priority ELSE @,
       !.due_date = IF body.due_date # Undef THEN body.due_date ELSE @,
       !.completed = IF body.completed # Undef THEN body.completed = "true"
                     ELSE @,
       !.user_id = IF body.user_id # Undef THEN body.user_id ELSE @]

\* PATCH: updateData carries the fields the body defines
UpdateData(row, body) ==
    [row EXCEPT
       !.title = IF body.title # Undef THEN body.title ELSE @,
       !.description = IF body.description # Undef THEN body.description ELSE @,
       !.priority = IF body.priority # Undef THEN body.priority ELSE @,
       !.due_date = IF body.due_date # Undef THEN body.due_date ELSE @,
       !.completed = IF body.completed # Undef THEN body.completed = "true"
                     ELSE @]

\* PATCH looking the row up by id first and answering 403 when it belongs
\* to someone else
PATCHForbidden(user, body, rows, now) ==
    IF user = NoUser THEN Outcome(Response(401, <<>>, NoRow), rows)
    ELSE IF body.id = NoId THEN Outcome(Response(400, <<>>, NoRow), rows)
    ELSE IF \E r \in rows : r.id = body.id /\ r.user_id # user
    THEN Outcome(Response(403, <<>>, NoRow), rows)
    ELSE LET hit == {r \in rows : r.id = body.id}
         IN IF hit = {} THEN Outcome(Response(500, <<>>, NoRow), rows)
            ELSE LET old == CHOOSE r \in hit : TRUE
                     new == [UpdateData(old, body) EXCEPT !.updated_at = now]
                 IN IF ~DbAccepts(new)
                    THEN Outcome(Response(500, <<>>, NoRow), rows)
                    ELSE Outcome(Response(200, <<>>, new),
                                 (rows \ {old}) \cup {new})

\* PATCH: .update(updateData).eq('id', id).eq('user_id', user.id).select()
\* .single(); the update trigger stamps updated_at; no row matched is an
\* error of .single()
PATCH(user, body, rows, now) ==
    IF user = NoUser THEN Outcome(Response(401, <<>>, NoRow), rows)
    ELSE IF body.id = NoId THEN Outcome(Response(400, <<>>, NoRow), rows)
    ELSE LET hit == {r \in rows : r.id = body.id /\ r.user_id = user}
         IN IF hit = {} THEN Outcome(Response(500, <<>>, NoRow), rows)
            ELSE LET old == CHOOSE r \in hit : TRUE
                     new == [UpdateData(old, body) EXCEPT !.updated_at = now]
                 IN IF ~DbAccepts(new)
                    THEN Outcome(Response(500, <<>>, NoRow), rows)
                    ELSE Outcome(Response(200, <<>>, new),
                                 (rows \ {old}) \cup {new})

\* DELETE without the .eq('user_id', user.id) filter
DELETEById(user, body, rows) ==
    IF user = NoUser THEN Outcome(Response(401, <<>>, NoRow), rows)
    ELSE IF body.id = NoId THEN Outcome(Response(400, <<>>, NoRow), rows)
    ELSE Outcome(Response(200, <<>>, NoRow), {r \in rows : r.id # body.id})

\* DELETE: .delete().eq('id', id).eq('user_id', user.id)
DELETE(user, body, rows) ==
    IF user = NoUser THEN Outcome(Response(401, <<>>, NoRow), rows)
    ELSE IF body.id = NoId THEN Outcome(Response(400, <<>>, NoRow), rows)
    ELSE Outcome(Response(200, <<>>, NoRow),
                 {r \in rows : ~(r.id = body.id /\ r.user_id = user)})


-----------------------------------------------------------------------------
(* The client: app/(dashboard)/todos/page.tsx (TodosPage, TodoForm, TodoList) *)

MaxMutations == 2       \* create/update/delete calls issued in one run

\* What the user types: a new todo's title and due date, an edited title.
NewTitles == {"n"}
NewDueDates == {"", "2025-02-01"}
EditTitles == {"c", " "}

\* The session the route handlers see for this browser's requests.
SessionUser == "u1"

\* The table when the page is opened: any of these rows of the user's.
SeedRows ==
    {[id |-> 1, user_id |-> "u1", title |-> "a", description |-> Null,
      priority |-> "medium", due_date |-> "2025-01-01", completed |-> FALSE,
      created_at |-> 1, updated_at |-> 1],
     [id |-> 2, user_id |-> "u1", title |-> "b", description |-> "x",
      priority |-> "high", due_date |-> Null, completed |-> FALSE,
      created_at |-> 2, updated_at |-> 2]}

FirstFreeId == Cardinality(SeedRows) + 1
FirstClock == Cardinality(SeedRows) + 1

BlankForm == [title |-> "", description |-> "", priority |-> "medium",
              due_date |-> ""]

NoAlert == [n |-> 0, msg |-> ""]

\* String.prototype.trim
RECURSIVE Trim(_)
Trim(s) ==
    IF Len(s) = 0 THEN s
    ELSE IF SubSeq(s, 1, 1) = " " THEN Trim(SubSeq(s, 2, Len(s)))
    ELSE IF SubSeq(s, Len(s), Len(s)) = " " THEN Trim(SubSeq(s, 1, Len(s) - 1))
    ELSE s

\* response.ok
Ok(resp) == resp.status \in 200..299

Ids(list) == {list[i].id : i \in DOMAIN list}
RowOf(list, id) == list[CHOOSE i \in DOMAIN list : list[i].id = id]

\* Array.prototype.filter(todo => todo.id !== id)
FilterOut(list, id) == SelectSeq(list, LAMBDA todo : todo.id # id)

\* Array.prototype.map(todo => todo.id === id ? f(todo) : todo)
\* (f is the callback's result for each element of the list)
MapOne(list, id, f) ==
    [i \in DOMAIN list |-> IF list[i].id = id THEN f[list[i]] ELSE list[i]]

\* The elements of an array
Elements(list) == {list[i] : i \in DOMAIN list}

\* A remote call a handler awaits: its kind, arguments and request body, the
\* `todos` its closure captured, and the response once there is one.
Call(n, kind, id, completed, body, list) ==
    [n |-> n, kind |-> kind, id |-> id, completed |-> completed,
     body |-> body, todos |-> list, resp |-> NoResp]

Answered(op) == op.resp.status # 0

\* The list is on screen: not the spinner, and the effect has run.
Rendered == ~loading /\ effectKey = refreshKey

\* fetchTodos up to `await getTodos()`, run by the effect on [refreshKey]
FetchTodosStart ==
    /\ effectKey # refreshKey
    /\ effectKey' = refreshKey
    /\ loading' = TRUE
    /\ pending' = pending \cup {Call(seq + 1, "fetch", NoId, FALSE, NoBody, <<>>)}
    /\ seq' = seq + 1
    /\ UNCHANGED <<refreshKey, formLoading, success, todos, deletingId,
                   editingId, editForm, updating, lastAlert, mutations,
                   newestApplied>>
    /\ UNCHANGED <<serverVars, gateVars, apiVars, storeVars>>

\* fetchTodos: todos after `await getTodos()`
FetchTodosTodos(op, cur) == IF Ok(op.resp) THEN op.resp.rows ELSE cur

\* fetchTodos from `await getTodos()` on
FetchTodosSettle(n) ==
    \E op \in pending :
    /\ op.n = n /\ op.kind = "fetch" /\ Answered(op)
    /\ todos' = FetchTodosTodos(op, todos)
    /\ newestApplied' = IF Ok(op.resp) /\ op.n > newestApplied THEN op.n
                        ELSE newestApplied
    /\ loading' = FALSE
    /\ pending' = pending \ {op}
    /\ UNCHANGED <<refreshKey, effectKey, formLoading, success, deletingId,
                   editingId, editForm, updating, lastAlert, seq, mutations>>
    /\ UNCHANGED <<serverVars, gateVars, apiVars, storeVars>>

\* TodoForm.handleSubmit up to `await createTodo(...)`
HandleSubmit(title, dueDate) ==
    /\ ~formLoading
    /\ mutations < MaxMutations
    /\ formLoading' = TRUE
    /\ success' = FALSE
    /\ pending' = pending \cup
         {Call(seq + 1, "create", NoId, FALSE,
               [NoBody EXCEPT !.title = title, !.description = "",
                              !.priority = "medium", !.due_date = dueDate],
               <<>>)}
    /\ seq' = seq + 1
    /\ mutations' = mutations + 1
    /\ UNCHANGED <<refreshKey, effectKey, todos, loading, deletingId,
                   editingId, editForm, updating, lastAlert, newestApplied>>
    /\ UNCHANGED <<serverVars, gateVars, apiVars, storeVars>>

\* TodoForm.handleSubmit from `await createTodo(...)` on; onTodoAdded is
\* TodosPage.handleTodoAdded
HandleSubmitSettle(n) ==
    \E op \in pending :
    /\ op.n = n /\ op.kind = "create" /\ Answered(op)
    /\ IF Ok(op.resp)
       THEN /\ success' = TRUE
            /\ refreshKey' = refreshKey + 1
            /\ UNCHANGED lastAlert
       ELSE /\ lastAlert' = [n |-> op.n, msg |-> "Gagal menambahkan todo."]
            /\ UNCHANGED <<success, refreshKey>>
    /\ formLoading' = FALSE
    /\ pending' = pending \ {op}
    /\ UNCHANGED <<effectKey, todos, loading, deletingId, editingId, editForm,
                   updating, seq, mutations, newestApplied>>
    /\ UNCHANGED <<serverVars, gateVars, apiVars, storeVars>>

\* TodoForm: setTimeout(() => setSuccess(false), 3000)
SuccessTimeout ==
    /\ success
    /\ success' = FALSE
    /\ UNCHANGED <<refreshKey, effectKey, formLoading, todos, loading,
                   deletingId, editingId, editForm, updating, lastAlert,
                   pending, seq, mutations, newestApplied>>
    /\ UNCHANGED <<serverVars, gateVars, apiVars, storeVars>>

\* TodoList.handleDelete up to `await deleteTodo(id)`; confirm() is answered
\* yes, and the button is disabled while deletingId is this todo
HandleDelete(id) ==
    /\ Rendered
    /\ id \in Ids(todos)
    /\ editingId # id
    /\ deletingId # id
    /\ mutations < MaxMutations
    /\ deletingId' = id
    /\ pending' = pending \cup
         {Call(seq + 1, "delete", id, FALSE, [NoBody EXCEPT !.id = id], todos)}
    /\ seq' = seq + 1
    /\ mutations' = mutations + 1
    /\ UNCHANGED <<refreshKey, effectKey, formLoading, success, todos, loading,
                   editingId, editForm, updating, lastAlert, newestApplied>>
    /\ UNCHANGED <<serverVars, gateVars, apiVars, storeVars>>

\* handleDelete with the removal applied whatever the call's outcome
HandleDeleteTodosAlways(op, cur) == FilterOut(op.todos, op.id)

\* handleDelete: todos after `await deleteTodo(id)`
HandleDeleteTodos(op, cur) ==
    IF Ok(op.resp) THEN FilterOut(op.todos, op.id) ELSE cur

\* handleDelete from `await deleteTodo(id)` on
HandleDeleteSettle(n) ==
    \E op \in pending :
    /\ op.n = n /\ op.kind = "delete" /\ Answered(op)
    /\ todos' = HandleDeleteTodos(op, todos)
    /\ lastAlert' = IF Ok(op.resp) THEN lastAlert
                    ELSE [n |-> op.n, msg |-> "Failed to delete todo"]
    /\ deletingId' = NoId
    /\ pending' = pending \ {op}
    /\ UNCHANGED <<refreshKey, effectKey, formLoading, success, loading,
                   editingId, editForm, updating, seq, mutations,
                   newestApplied>>
    /\ UNCHANGED <<serverVars, gateVars, apiVars, storeVars>>

\* TodoList.handleToggleComplete(todo.id, todo.completed) up to
\* `await toggleTodoComplete(id, completed)`
HandleToggleComplete(id) ==
    /\ Rendered
    /\ id \in Ids(todos)
    /\ editingId # id
    /\ mutations < MaxMutations
    /\ LET completed == RowOf(todos, id).completed
       IN pending' = pending \cup
            {Call(seq + 1, "toggle", id, completed,
                  [NoBody EXCEPT !.id = id,
                      !.completed = IF completed THEN "false" ELSE "true"],
                  todos)}
    /\ seq' = seq + 1
    /\ mutations' = mutations + 1
    /\ UNCHANGED <<refreshKey, effectKey, formLoading, success, todos, loading,
                   deletingId, editingId, editForm, updating, lastAlert,
                   newestApplied>>
    /\ UNCHANGED <<serverVars, gateVars, apiVars, storeVars>>

\* handleToggleComplete: todos after `await toggleTodoComplete(id, completed)`
HandleToggleCompleteTodos(op, cur) ==
    IF Ok(op.resp)
    THEN MapOne(op.todos, op.id,
                [todo \in Elements(op.todos) |->
                    [todo EXCEPT !.completed = ~op.completed]])
    ELSE cur

\* handleToggleComplete from `await toggleTodoComplete(id, completed)` on
HandleToggleCompleteSettle(n) ==
    \E op \in pending :
    /\ op.n = n /\ op.kind = "toggle" /\ Answered(op)
    /\ todos' = HandleToggleCompleteTodos(op, todos)
    /\ lastAlert' = IF Ok(op.resp) THEN lastAlert
                    ELSE [n |-> op.n, msg |-> "Failed to update todo"]
    /\ pending' = pending \ {op}
    /\ UNCHANGED <<refreshKey, effectKey, formLoading, success, loading,
                   deletingId, editingId, editForm, updating, seq, mutations,
                   newestApplied>>
    /\ UNCHANGED <<serverVars, gateVars, apiVars, storeVars>>

\* handleStartEdit: the form a todo is loaded into
StartEditForm(todo) ==
    [title |-> todo.title,
     description |-> IF todo.description \in {Null, ""} THEN ""
                     ELSE todo.description,
     priority |-> todo.priority,
     due_date |-> IF todo.due_date \in {Null, ""} THEN "" ELSE todo.due_date]

\* TodoList.handleStartEdit; the button is disabled for a completed todo
HandleStartEdit(id) ==
    /\ Rendered
    /\ id \in Ids(todos)
    /\ editingId # id
    /\ ~RowOf(todos, id).completed
    /\ editingId' = id
    /\ editForm' = StartEditForm(RowOf(todos, id))
    /\ UNCHANGED <<refreshKey, effectKey, formLoading, success, todos, loading,
                   deletingId, updating, lastAlert, pending, seq, mutations,
                   newestApplied>>
    /\ UNCHANGED <<serverVars, gateVars, apiVars, storeVars>>

\* The title input's onChange in edit mode
SetEditFormTitle(title) ==
    /\ Rendered
    /\ editingId \in Ids(todos)
    /\ editForm.title # title
    /\ editForm' = [editForm EXCEPT !.title = title]
    /\ UNCHANGED <<refreshKey, effectKey, formLoading, success, todos, loading,
                   deletingId, editingId, updating, lastAlert, pending, seq,
                   mutations, newestApplied>>
    /\ UNCHANGED <<serverVars, gateVars, apiVars, storeVars>>

\* TodoList.handleCancelEdit; the button is disabled while updating
HandleCancelEdit ==
    /\ Rendered
    /\ editingId \in Ids(todos)
    /\ ~updating
    /\ editingId' = NoId
    /\ editForm' = BlankForm
    /\ UNCHANGED <<refreshKey, effectKey, formLoading, success, todos, loading,
                   deletingId, updating, lastAlert, pending, seq, mutations,
                   newestApplied>>
    /\ UNCHANGED <<serverVars, gateVars, apiVars, storeVars>>

\* handleSaveEdit: the PATCH body
SaveEditBody(id, form) ==
    [NoBody EXCEPT !.id = id, !.title = form.title,
                   !.description = form.description,
                   !.priority = form.priority, !.due_date = form.due_date]

\* TodoList.handleSaveEdit up to `await fetch('/api/todos', PATCH)`; the
\* button is disabled while updating
HandleSaveEdit(id) ==
    /\ Rendered
    /\ id \in Ids(todos)
    /\ editingId = id
    /\ ~updating
    /\ IF Trim(editForm.title) = ""
       THEN /\ lastAlert' = [n |-> 0, msg |-> "Title is required"]
            /\ lastAlert' # lastAlert
            /\ UNCHANGED <<updating, pending, seq, mutations>>
       ELSE /\ mutations < MaxMutations
            /\ updating' = TRUE
            /\ pending' = pending \cup
                 {Call(seq + 1, "save", id, FALSE, SaveEditBody(id, editForm),
                       todos)}
            /\ seq' = seq + 1
            /\ mutations' = mutations + 1
            /\ UNCHANGED lastAlert
    /\ UNCHANGED <<refreshKey, effectKey, formLoading, success, todos, loading,
                   deletingId, editingId, editForm, newestApplied>>
    /\ UNCHANGED <<serverVars, gateVars, apiVars, storeVars>>

\* handleSaveEdit: todos after the PATCH response
HandleSaveEditTodos(op, cur) ==
    IF Ok(op.resp)
    THEN MapOne(op.todos, op.id, [todo \in Elements(op.todos) |-> op.resp.row])
    ELSE cur

\* handleSaveEdit sending the PATCH again when it failed
HandleSaveEditSettleRetry(n) ==
    \E op \in pending :
    /\ op.n = n /\ op.kind = "save" /\ Answered(op)
    /\ todos' = HandleSaveEditTodos(op, todos)
    /\ IF Ok(op.resp)
       THEN /\ editingId' = NoId
            /\ editForm' = BlankForm
            /\ updating' = FALSE
            /\ pending' = pending \ {op}
            /\ UNCHANGED seq
       ELSE /\ pending' = (pending \ {op}) \cup
                 {Call(seq + 1, "save", op.id, FALSE, op.body, op.todos)}
            /\ seq' = seq + 1
            /\ UNCHANGED <<editingId, editForm, updating>>
    /\ UNCHANGED <<refreshKey, effectKey, formLoading, success, loading,
                   deletingId, lastAlert, mutations, newestApplied>>
    /\ UNCHANGED <<serverVars, gateVars, apiVars, storeVars>>

\* handleSaveEdit from `await fetch(...)` on
HandleSaveEditSettle(n) ==
    \E op \in pending :
    /\ op.n = n /\ op.kind = "save" /\ Answered(op)
    /\ todos' = HandleSaveEditTodos(op, todos)
    /\ IF Ok(op.resp)
       THEN /\ editingId' = NoId
            /\ editForm' = BlankForm
            /\ UNCHANGED lastAlert
       ELSE /\ lastAlert' = [n |-> op.n, msg |-> "Failed to update todo"]
            /\ UNCHANGED <<editingId, editForm>>
    /\ updating' = FALSE
    /\ pending' = pending \ {op}
    /\ UNCHANGED <<refreshKey, effectKey, formLoading, success, loading,
                   deletingId, seq, mutations, newestApplied>>
    /\ UNCHANGED <<serverVars, gateVars, apiVars, storeVars>>

-----------------------------------------------------------------------------
(* The network between the page and /api/todos *)

\* getTodos(): the data-access call behind fetchTodos, a GET of /api/todos
GetTodos(rows) == GET(SessionUser, rows)

\* createTodo(fields): a POST of the fields to /api/todos
CreateTodo(body, rows, id, now) == POST(SessionUser, body, rows, id, now)

\* toggleTodoComplete(id, completed): a PATCH of { id, completed: !completed }
ToggleTodoComplete(body, rows, now) == PATCH(SessionUser, body, rows, now)

\* deleteTodo(id): a DELETE of { id }
DeleteTodo(body, rows) == DELETE(SessionUser, body, rows)

\* What the server does with a call; handleSaveEdit fetches /api/todos with
\* method PATCH itself.
Route(op, rows, id, now) ==
    CASE op.kind = "fetch" -> GetTodos(rows)
      [] op.kind = "create" -> CreateTodo(op.body, rows, id, now)
      [] op.kind = "toggle" -> ToggleTodoComplete(op.body, rows, now)
      [] op.kind = "save" -> PATCH(SessionUser, op.body, rows, now)
      [] op.kind = "delete" -> DeleteTodo(op.body, rows)

\* The request reaches the server and the handler answers it.
ServerHandles(n) ==
    \E op \in pending :
    /\ op.n = n /\ ~Answered(op)
    /\ LET out == Route(op, db, nextId, clock)
       IN /\ db' = out.db
          /\ clock' = IF op.kind = "fetch" THEN clock ELSE clock + 1
          /\ nextId' = IF op.kind = "create" /\ Ok(out.resp) THEN nextId + 1
                       ELSE nextId
          /\ pending' = (pending \ {op}) \cup {[op EXCEPT !.resp = out.resp]}
    /\ UNCHANGED <<refreshKey, effectKey, formLoading, success, todos, loading,
                   deletingId, editingId, editForm, updating, lastAlert, seq,
                   mutations, newestApplied>>
    /\ UNCHANGED <<gateVars, apiVars, storeVars>>

\* The status of a response that never came: fetch() rejected.
NetworkError == -1

\* The request never reaches the server: the awaited call rejects.
NetworkFails(n) ==
    \E op \in pending :
    /\ op.n = n /\ ~Answered(op)
    /\ pending' = (pending \ {op}) \cup
                    {[op EXCEPT !.resp = Response(NetworkError, <<>>, NoRow)]}
    /\ UNCHANGED <<refreshKey, effectKey, formLoading, success, todos, loading,
                   deletingId, editingId, editForm, updating, lastAlert, seq,
                   mutations, newestApplied>>
    /\ UNCHANGED <<serverVars, gateVars, apiVars, storeVars>>

-----------------------------------------------------------------------------
(* Direct callers of /api/todos: any client holding a session, or none *)

MaxCalls == 2           \* requests answered in one run

\* The session a request carries: none, or one of two users'.
Callers == {NoUser, "u1", "u2"}

\* A row of the other user's.
OtherRows ==
    {[id |-> 9, user_id |-> "u2", title |-> "z", description |-> Null,
      priority |-> "low", due_date |-> Null, completed |-> FALSE,
      created_at |-> 1, updated_at |-> 1]}

\* TodoSchema.title: .max(100)
MaxTitleLen == 100

\* A title of MaxTitleLen + 1 characters
LongTitle ==
    "xxxxxxxxxxxxxxxxxxxxxxxxxxxxxxxxxxxxxxxxxxxxxxxxxxxxxxxxxxxxxxxxxxxxxxxxxxxxxxxxxxxxxxxxxxxxxxxxxxxxx"

\* The ids a request can target: none, a row of u1's, the row of u2's, and an
\* id no row has.
TargetIds == {NoId, 1, 9, 7}

\* The JSON bodies a caller can send.
PostBodies ==
    {[NoBody EXCEPT !.title = t, !.priority = p] :
        t \in {Undef, "", "n", LongTitle}, p \in {Undef, "high", "urgent"}}

PatchBodies ==
    {[NoBody EXCEPT !.id = i, !.title = t, !.priority = p, !.completed = c,
                    !.user_id = u] :
        i \in TargetIds, t \in {Undef, "c", LongTitle},
        p \in {Undef, "urgent"}, c \in {Undef, "true"}, u \in {Undef, "u2"}}

DeleteBodies == {[NoBody EXCEPT !.id = i] : i \in TargetIds}

NoCall == [method |-> "none", user |-> NoUser, body |-> NoBody, before |-> {},
           now |-> 0, resp |-> NoResp]

\* A handler answers a request: the table changes as the handler says and
\* the request and its answer are kept.
Answer(method, caller, body, out) ==
    /\ db' = out.db
    /\ clock' = clock + 1
    /\ nextId' = IF method = "POST" /\ Ok(out.resp) THEN nextId + 1 ELSE nextId
    /\ apiCall' = [method |-> method, user |-> caller, body |-> body,
                   before |-> db, now |-> clock, resp |-> out.resp]
    /\ calls' = calls + 1
    /\ UNCHANGED <<gateVars, clientVars, storeVars>>

ApiGET(caller) ==
    /\ calls < MaxCalls
    /\ Answer("GET", caller, NoBody, GET(caller, db))

ApiPOST(caller, body) ==
    /\ calls < MaxCalls
    /\ Answer("POST", caller, body, POST(caller, body, db, nextId, clock))

ApiPATCH(caller, body) ==
    /\ calls < MaxCalls
    /\ Answer("PATCH", caller, body, PATCH(caller, body, db, clock))

ApiDELETE(caller, body) ==
    /\ calls < MaxCalls
    /\ Answer("DELETE", caller, body, DELETE(caller, body, db))

-----------------------------------------------------------------------------
(* The session store: lib/stores/auth-store.ts *)

MaxStoreCalls == 3      \* store actions called in one run

\* The users setUser can be handed: null or a user.
StoreUsers == {NoUser, "u1", "u2"}

\* create(): the initial state
InitialAuthState == [user |-> NoUser, loading |-> TRUE]

\* setUser written as set({ user }), loading left alone
SetUserOnly(state, u) == [state EXCEPT !.user = u]

\* setUser: (user) => set({ user, loading: false })
SetUserState(state, u) == [state EXCEPT !.user = u, !.loading = FALSE]

\* setLoading: (loading) => set({ loading })
SetLoadingState(state, l) == [state EXCEPT !.loading = l]

AuthState == [user |-> authUser, loading |-> authLoading]

\* A call of a store action, as the log keeps it.
StoreCall(op, arg) == [op |-> op, arg |-> arg]

SetUser(u) ==
    /\ Len(storeLog) < MaxStoreCalls
    /\ authUser' = SetUserState(AuthState, u).user
    /\ authLoading' = SetUserState(AuthState, u).loading
    /\ storeLog' = Append(storeLog, StoreCall("setUser", u))
    /\ UNCHANGED <<gateVars, serverVars, clientVars, apiVars>>

SetLoading(l) ==
    /\ Len(storeLog) < MaxStoreCalls
    /\ authUser' = SetLoadingState(AuthState, l).user
    /\ authLoading' = SetLoadingState(AuthState, l).loading
    /\ storeLog' = Append(storeLog, StoreCall("setLoading",
                                              IF l THEN "true" ELSE "false"))
    /\ UNCHANGED <<gateVars, serverVars, clientVars, apiVars>>

-----------------------------------------------------------------------------
(* Specifications *)

GateIdle ==
    /\ nav = ""
    /\ gpc = "idle"
    /\ request = NoRequest
    /\ response = NoResponse
    /\ gwOutcome = NoOutcome
    /\ result = NoResponse
    /\ prev = NoRun

ClientInit ==
    /\ refreshKey = 0
    /\ effectKey = -1
    /\ formLoading = FALSE
    /\ success = FALSE
    /\ todos = <<>>
    /\ loading = TRUE
    /\ deletingId = NoId
    /\ editingId = NoId
    /\ editForm = BlankForm
    /\ updating = FALSE
    /\ lastAlert = NoAlert
    /\ pending = {}
    /\ seq = 0
    /\ mutations = 0
    /\ newestApplied = 0

ServerInit(rows) ==
    /\ db = rows
    /\ clock = FirstClock
    /\ nextId = FirstFreeId

ApiIdle ==
    /\ apiCall = NoCall
    /\ calls = 0

StoreInit ==
    /\ authUser = InitialAuthState.user
    /\ authLoading = InitialAuthState.loading
    /\ storeLog = <<>>

Init ==
    /\ browserCookie = "valid"
    /\ GateIdle
    /\ \E rows \in SUBSET SeedRows : ServerInit(rows)
    /\ ClientInit
    /\ ApiIdle
    /\ StoreInit

\* The ids a todo can have: the seed rows' and one per create.
TodoIds == 1..(FirstFreeId + MaxMutations)

\* The numbers a call can have: every mutation, the fetch on mount and the
\* refetch after each create.
CallNumbers == 1..(2 * MaxMutations + 1)

Next ==
    \/ FetchTodosStart
    \/ \E n \in CallNumbers : FetchTodosSettle(n)
    \/ \E t \in NewTitles, d \in NewDueDates : HandleSubmit(t, d)
    \/ \E n \in CallNumbers : HandleSubmitSettle(n)
    \/ SuccessTimeout
    \/ \E id \in TodoIds : HandleDelete(id)
    \/ \E n \in CallNumbers : HandleDeleteSettle(n)
    \/ \E id \in TodoIds : HandleToggleComplete(id)
    \/ \E n \in CallNumbers : HandleToggleCompleteSettle(n)
    \/ \E id \in TodoIds : HandleStartEdit(id)
    \/ \E t \in EditTitles : SetEditFormTitle(t)
    \/ HandleCancelEdit
    \/ \E id \in TodoIds : HandleSaveEdit(id)
    \/ \E n \in CallNumbers : HandleSaveEditSettle(n)
    \/ \E n \in CallNumbers : ServerHandles(n)
    \/ \E n \in CallNumbers : NetworkFails(n)

Spec == Init /\ [][Next]_vars


GateInit ==
    /\ browserCookie \in {"none", "valid"}
    /\ GateIdle
    /\ ServerInit({})
    /\ ClientInit
    /\ ApiIdle
    /\ StoreInit

GateNext ==
    \/ \E p \in RequestPaths : UpdateSessionStart(p)
    \/ \E p \in RequestPaths : MatcherExcludes(p)
    \/ \E o \in GetUserOutcomes : UpdateSessionFinish(o)
    \/ BrowserReceive
    \/ TokenAges
    \/ SignIn
    \/ Revoke

GateSpec == GateInit /\ [][GateNext]_vars

\* /api/todos answering direct callers, over a table holding rows of two users
ApiInit ==
    /\ browserCookie = "none"
    /\ GateIdle
    /\ \E rows \in SUBSET (SeedRows \cup OtherRows) : ServerInit(rows)
    /\ ClientInit
    /\ ApiIdle
    /\ StoreInit

ApiNext ==
    \/ \E c \in Callers : ApiGET(c)
    \/ \E c \in Callers, body \in PostBodies : ApiPOST(c, body)
    \/ \E c \in Callers, body \in PatchBodies : ApiPATCH(c, body)
    \/ \E c \in Callers, body \in DeleteBodies : ApiDELETE(c, body)

ApiSpec == ApiInit /\ [][ApiNext]_vars

\* The session store and the components calling its actions
StoreSpecInit ==
    /\ browserCookie = "none"
    /\ GateIdle
    /\ ServerInit({})
    /\ ClientInit
    /\ ApiIdle
    /\ StoreInit

StoreNext ==
    \/ \E u \in StoreUsers : SetUser(u)
    \/ \E l \in BOOLEAN : SetLoading(l)

StoreSpec == StoreSpecInit /\ [][StoreNext]_vars

-----------------------------------------------------------------------------
(* Properties of the request gate, checked under GateSpec *)

Returned == gpc = "returned"

\* C1: a request to a path starting with /todos for which session validation
\* yields no user is answered with a redirect to /login, never passed
\* through.
C1_ProtectedNoUserRedirectsToLogin ==
    (Returned /\ StartsWith(request.pathname, "/todos")
       /\ gwOutcome.user = NoUser)
    => (result.kind = "redirect" /\ result.location = "/login")

C1_Witness ==
    /\ Returned
    /\ request.pathname = "/todos/1"
    /\ gwOutcome.user = NoUser
    /\ result.kind = "redirect"

\* C2: a request to /login or /register for which session validation yields
\* a user is answered with a redirect to /todos, never passed through.
C2_UserOnLoginRegisterRedirectsToTodos ==
    (Returned /\ request.pathname \in {"/login", "/register"}
       /\ gwOutcome.user # NoUser)
    => (result.kind = "redirect" /\ result.location = "/todos")

C2_Witness ==
    /\ Returned
    /\ request.pathname = "/register"
    /\ gwOutcome.user = "u1"
    /\ result.location = "/todos"

\* C3: when the validation call itself fails, updateSession still returns a
\* response (pass-through or redirect), and for a path starting with /todos
\* that response is the redirect to /login.
C3_GatewayFailureFailsClosed ==
    (gwOutcome.resolved /\ gwOutcome.error)
    => /\ result.kind \in {"next", "redirect"}
       /\ StartsWith(request.pathname, "/todos")
            => (result.kind = "redirect" /\ result.location = "/login")

C3_Witness ==
    /\ Returned
    /\ gwOutcome.error
    /\ gwOutcome.cookiesToSet = Unset
    /\ browserCookie = "valid"
    /\ request.pathname = "/todos"
    /\ result.kind = "redirect"

\* C4: whenever session validation refreshes the credential (setAll is
\* handed new session cookies), the response updateSession returns carries
\* them, whichever decision it is.
C4_RefreshedCookiesOnEveryDecision ==
    (Returned /\ gwOutcome.cookiesToSet \notin {Unset, Cleared})
    => result.cookies = gwOutcome.cookiesToSet

-----------------------------------------------------------------------------
(* Properties of the todos page, checked under Spec *)

\* This step is the settlement of call op: its handler resumes after the
\* await and runs to its end.
Settles(op) == op \in pending /\ Answered(op) /\ op \notin pending'

UpdateOrDelete == {"toggle", "save", "delete"}

\* C5: when the remote call of an update, toggle or delete fails, handling
\* the failure leaves the displayed list exactly as it was (nothing was
\* applied, so nothing is left to undo) and the failure is reported by an
\* alert for that call.
C5_FailedMutationLeavesList ==
    [][\A op \in pending :
         (Settles(op) /\ op.kind \in UpdateOrDelete /\ ~Ok(op.resp))
         => (todos' = todos /\ lastAlert'.n = op.n /\ lastAlert'.msg # "")]_vars

C5_Witness ==
    /\ lastAlert.n > 0
    /\ lastAlert.msg \in {"Failed to delete todo", "Failed to update todo"}
    /\ Len(todos) = 2
    /\ pending = {}

\* C6: no two update, toggle or delete calls for the same todo are in flight
\* at the same time.
C6_OneInFlightMutationPerTask ==
    \A a, b \in pending :
        (a.kind \in UpdateOrDelete /\ b.kind \in UpdateOrDelete
           /\ a.id = b.id)
        => a.n = b.n

\* C7: the response of a fetch that was issued before a fetch whose response
\* is already in the list does not change the list.
C7_StaleFetchNeverOverwrites ==
    [][\A op \in pending :
         (Settles(op) /\ op.kind = "fetch" /\ Ok(op.resp)
            /\ op.n < newestApplied)
         => todos' = todos]_vars

\* C8: the settlement of every create, update, toggle or delete, successful
\* or failed, triggers a refetch of the list (refreshKey is bumped).
C8_SettledMutationInvalidates ==
    [][\A op \in pending :
         (Settles(op) /\ op.kind \in UpdateOrDelete \cup {"create"})
         => refreshKey' = refreshKey + 1]_vars

\* C9: after a successful edit that changes only the title, the displayed
\* todo is the server's row, its other fields (updated_at aside) are those
\* it had when the edit was saved, and every other todo is as it was then.
C9_UpdateChangesOnlyTheField ==
    [][\A op \in pending :
         (Settles(op) /\ op.kind = "save" /\ Ok(op.resp)
            /\ op.body.title # RowOf(op.todos, op.id).title)
         => LET old == RowOf(op.todos, op.id)
                new == RowOf(todos', op.id)
            IN /\ new = op.resp.row
               /\ new.id = old.id
               /\ new.user_id = old.user_id
               /\ new.description = old.description
               /\ new.priority = old.priority
               /\ new.due_date = old.due_date
               /\ new.completed = old.completed
               /\ new.created_at = old.created_at
               /\ Len(todos') = Len(op.todos)
               /\ \A i \in DOMAIN op.todos :
                      op.todos[i].id # op.id => todos'[i] = op.todos[i]]_vars

\* C10: a successful toggle leaves the list the update path leaves for the
\* same PATCH response (the server's row merged in).
C10_ToggleReconcilesLikeUpdate ==
    [][\A op \in pending :
         (Settles(op) /\ op.kind = "toggle" /\ Ok(op.resp))
         => todos' = HandleSaveEditTodos(op, todos)]_vars

\* C11: when a delete of task X settles with the remote call confirmed, X is
\* gone from the displayed list, every other task displayed before is still
\* there unchanged, and the list is marked stale (refreshKey is bumped, the
\* only thing that makes TodoList fetch again).
C11_ConfirmedDeleteRemovesOnlyX ==
    [][\A op \in pending :
         (Settles(op) /\ op.kind = "delete" /\ Ok(op.resp))
         => /\ op.id \notin Ids(todos')
            /\ \A t \in Elements(todos) : t.id # op.id => t \in Elements(todos')
            /\ refreshKey' = refreshKey + 1]_vars

-----------------------------------------------------------------------------
(* Properties of the /api/todos handlers, checked under ApiSpec *)

OwnedBy(rows, u) == {r \in rows : r.user_id = u}

\* The request carried only a title.
OnlyTitle(body) ==
    /\ body.title \notin {Undef, ""}
    /\ body.description = Undef /\ body.priority = Undef
    /\ body.due_date = Undef /\ body.completed = Undef

C13_ScopedToCaller ==
    apiCall.method # "none"
    => /\ \A u \in Callers \ {apiCall.user} :
            OwnedBy(db, u) = OwnedBy(apiCall.before, u)
       /\ \A r \in Elements(apiCall.resp.rows) : r.user_id = apiCall.user
       /\ apiCall.resp.row # NoRow => apiCall.resp.row.user_id = apiCall.user
       /\ \A r \in db : r.id \notin {q.id : q \in apiCall.before}
                          => r.user_id = apiCall.user

C13_Witness ==
    /\ apiCall.method = "DELETE" /\ apiCall.user = "u1" /\ apiCall.body.id = 9
    /\ Ok(apiCall.resp)
    /\ OwnedBy(db, "u2") # {}
    /\ calls = MaxCalls

\* What the handler answers to the same request over the given table.
AnswerOver(call, rows) ==
    CASE call.method = "PATCH" -> PATCH(call.user, call.body, rows, call.now).resp
      [] call.method = "DELETE" -> DELETE(call.user, call.body, rows).resp

\* The request targets a row that exists and belongs to someone else.
TargetsForeignRow(call) ==
    /\ call.method \in {"PATCH", "DELETE"}
    /\ call.user # NoUser
    /\ \E r \in call.before : r.id = call.body.id /\ r.user_id # call.user

\* C14: a PATCH or DELETE aimed at another user's row is answered exactly as
\* the same request would be if no row had that id.
C14_NoExistenceLeak ==
    TargetsForeignRow(apiCall)
    => apiCall.resp = AnswerOver(apiCall, {r \in apiCall.before :
                                              r.id # apiCall.body.id})

C14_Witness ==
    /\ TargetsForeignRow(apiCall)
    /\ apiCall.method = "PATCH" /\ apiCall.body.title = "c"
    /\ apiCall.resp.status = 500

-----------------------------------------------------------------------------
(* More properties of the request gate, checked under GateSpec *)

\* C15: updateSession returns the pass-through response in exactly two cases:
\* no user and a path that does not start with /todos, or a user and a path
\* that starts with neither /login nor /register.
C15_AllowExactlyInRemainingCases ==
    Returned
    => (result.kind = "next"
        <=> \/ /\ gwOutcome.user = NoUser
               /\ ~StartsWith(request.pathname, "/todos")
            \/ /\ gwOutcome.user # NoUser
               /\ ~StartsWith(request.pathname, "/login")
               /\ ~StartsWith(request.pathname, "/register"))

C15_Witness ==
    /\ Returned /\ result.kind = "next"
    /\ gwOutcome.user = NoUser /\ request.pathname = "/register"
    /\ prev.done /\ prev.kind = "next" /\ prev.user = "u1"
    /\ prev.pathname = "/todos/1"

\* C16: two runs of updateSession in a row for the same path, both with a
\* credential that validates to the same user, return the same decision
\* (pass-through, or redirect to the same place), also when the first run
\* refreshed the credential.
C16_GateIdempotent ==
    (Returned /\ prev.done /\ prev.pathname = request.pathname
       /\ prev.user # NoUser /\ gwOutcome.user = prev.user)
    => (result.kind = prev.kind /\ result.location = prev.location)

C16_Witness ==
    /\ Returned /\ prev.done /\ prev.refreshed
    /\ prev.pathname = "/todos" /\ request.pathname = "/todos"
    /\ prev.user = "u1" /\ gwOutcome.user = "u1"
    /\ gwOutcome.cookiesToSet = Unset
    /\ result.kind = "next"

\* An unauthenticated request to a dashboard route
UnauthenticatedDashboardRequest ==
    /\ Returned
    /\ gwOutcome.user = NoUser
    /\ \/ StartsWith(request.pathname, "/todos")
       \/ StartsWith(request.pathname, "/dashboard")

\* C18: a request without a valid user to /todos or /dashboard is redirected
\* to /login.
C18_DashboardRoutesProtected ==
    UnauthenticatedDashboardRequest
    => (result.kind = "redirect" /\ result.location = "/login")

-----------------------------------------------------------------------------
(* Properties of the session store, checked under StoreSpec *)

Called(op) == \E k \in DOMAIN storeLog : storeLog[k].op = op
LastCall == storeLog[Len(storeLog)]

\* The store as loaded, and what a setUser call leaves behind.
FreshAndSetUser ==
    /\ storeLog = <<>> => (authLoading /\ authUser = NoUser)
    /\ (storeLog # <<>> /\ LastCall.op = "setUser")
         => (authUser = LastCall.arg /\ ~authLoading)

\* C17 as stated: on a fresh load loading is true and the user is null,
\* loading is true in every state before the first setUser call, and setUser
\* sets the user and clears loading.
C17_LoadingUntilFirstSetUser ==
    /\ FreshAndSetUser
    /\ ~Called("setUser") => authLoading

\* C17 as amended: on a fresh load loading is true and the user is null;
\* loading is true in every state before the first setUser call in which
\* setLoading(false) has not been called either; setUser sets the user and
\* clears loading.
C17_LoadingUntilSetUserOrSetLoading ==
    /\ FreshAndSetUser
    /\ (~Called("setUser")
          /\ \A k \in DOMAIN storeLog : storeLog[k] # StoreCall("setLoading", "false"))
       => (authLoading /\ authUser = NoUser)

C17_Witness ==
    /\ Len(storeLog) = 3
    /\ storeLog[1] = StoreCall("setLoading", "true")
    /\ storeLog[2] = StoreCall("setUser", "u1")
    /\ storeLog[3] = StoreCall("setUser", NoUser)
    /\ authUser = NoUser /\ ~authLoading

-----------------------------------------------------------------------------
(* More properties of the /api/todos handlers, checked under ApiSpec *)

BadTitle(title) == Len(title) < 1 \/ Len(title) > MaxTitleLen
BadPriority(priority) == priority \notin Priorities

\* The request is malformed: a create without a title, an update or delete
\* without an id, or a title or priority outside what TodoSchema allows.
Malformed(call) ==
    CASE call.method = "POST" ->
           \/ call.body.title = Undef
           \/ BadTitle(call.body.title)
           \/ call.body.priority # Undef /\ BadPriority(call.body.priority)
      [] call.method = "PATCH" ->
           \/ call.body.id = NoId
           \/ call.body.title # Undef /\ BadTitle(call.body.title)
           \/ call.body.priority # Undef /\ BadPriority(call.body.priority)
      [] call.method = "DELETE" -> call.body.id = NoId
      [] OTHER -> FALSE

\* C19: a malformed request from a signed-in caller is answered with an
\* error and leaves the table as it was.
C19_MalformedInputRejected ==
    (apiCall.user # NoUser /\ Malformed(apiCall))
    => (~Ok(apiCall.resp) /\ db = apiCall.before)

-----------------------------------------------------------------------------
(* More properties of the todos page, checked under Spec *)

Writes == UpdateOrDelete \cup {"create"}

\* C20: a handler issues one remote call per invocation and never another
\* when it resumes: no step issues more than one call, the server acts on a
\* call at most once, and the step that settles a write issues no call; if
\* the write failed, that step reports the failure.
C20_WritesNeverRetried ==
    [][/\ seq' \in {seq, seq + 1}
       /\ {op.n : op \in pending'} \subseteq {op.n : op \in pending} \cup {seq'}
       /\ db' # db => \E op \in pending :
                         /\ ~Answered(op)
                         /\ [op EXCEPT !.resp = Route(op, db, nextId, clock).resp]
                              \in pending'
       /\ \A op \in pending :
            (Settles(op) /\ op.kind \in Writes)
            => /\ seq' = seq
               /\ \A q \in pending' : q.n # op.n
               /\ ~Ok(op.resp) => (lastAlert'.n = op.n /\ lastAlert'.msg # "")]_vars

C20_Witness ==
    /\ lastAlert.msg = "Failed to update todo"
    /\ lastAlert.n = seq
    /\ editingId # NoId /\ ~updating
    /\ pending = {}
    /\ mutations = 1

\* C21: the mutations of one task settle in the order they were issued: when
\* a mutation of a task settles, no mutation of the same task issued before
\* it is still waiting to settle.
C21_SettleInIssueOrder ==
    [][\A op \in pending :
         (Settles(op) /\ op.kind \in UpdateOrDelete)
         => \A q \in pending :
              (q.kind \in UpdateOrDelete /\ q.id = op.id) => q.n >= op.n]_vars

\* The fetches of the list that are in flight: issued and not yet answered.
FetchesInFlight == {op \in pending : op.kind = "fetch" /\ ~Answered(op)}

\* C22: fetches of the list are deduplicated: while one is in flight no
\* second remote call is issued, so at most one is in flight at any time.
C22_FetchesDeduplicated == Cardinality(FetchesInFlight) <= 1

\* C23: when a fetch of the list fails, the displayed list stays what it was
\* and the failure is shown to the user (the component's only error channel
\* is the alert).
C23_FailedFetchKeepsDataAndMarksError ==
    [][\A op \in pending :
         (Settles(op) /\ op.kind = "fetch" /\ ~Ok(op.resp))
         => (todos' = todos /\ lastAlert'.n = op.n)]_vars

\* The update was refused and the task is not in the table.
TargetMissing(op) ==
    /\ op.kind \in {"toggle", "save"}
    /\ ~Ok(op.resp)
    /\ op.id \notin {r.id : r \in db}

\* C25: when an update of a task that is missing on the server settles, the
\* page shows a message and forces a refetch of the list (refreshKey is
\* bumped).
C25_MissingTargetForcesRefetch ==
    [][\A op \in pending :
         (Settles(op) /\ TargetMissing(op))
         => (lastAlert'.n = op.n /\ refreshKey' = refreshKey + 1)]_vars

\* C27: the completion of a toggle, edit or delete of one task never brings
\* back another task that was no longer displayed: every task other than the
\* mutation's own that is displayed after it settles was displayed before.
C27_SettleNeverResurrects ==
    [][\A op \in pending :
         (Settles(op) /\ op.kind \in UpdateOrDelete)
         => \A x \in Ids(todos') : x # op.id => x \in Ids(todos)]_vars

\* C28: while a delete of a task is in flight its delete button is disabled
\* (the button is disabled exactly when deletingId is the task's id).
C28_DeleteDisabledWhileInFlight ==
    \A op \in pending : op.kind = "delete" => deletingId = op.id

-----------------------------------------------------------------------------
(* Further properties of the /api/todos handlers, checked under ApiSpec *)

\* C24: no request changes the owner or the id of an existing task: a row
\* that was in the table is afterwards there under the same id with the same
\* user_id, or (after a DELETE) gone.
C24_OwnerImmutable ==
    apiCall.method # "none"
    => \A r \in apiCall.before :
          /\ \A q \in db : q.id = r.id => q.user_id = r.user_id
          /\ apiCall.method # "DELETE" => \E q \in db : q.id = r.id

C24_Witness ==
    /\ apiCall.method = "PATCH" /\ apiCall.user = "u1"
    /\ apiCall.body.id = 1 /\ apiCall.body.user_id = "u2"
    /\ apiCall.body.title = "c"
    /\ Ok(apiCall.resp)
    /\ \E q \in db : q.id = 1 /\ q.title = "c" /\ q.user_id = "u1"

\* C29: a request without a valid session is answered 401 by every handler,
\* whatever its body, and the table is neither read into the answer nor
\* written.
C29_UnauthorizedBeforeStore ==
    (apiCall.method # "none" /\ apiCall.user = NoUser)
    => /\ apiCall.resp.status = 401
       /\ apiCall.resp.rows = <<>> /\ apiCall.resp.row = NoRow
       /\ db = apiCall.before

C29_Witness ==
    /\ apiCall.method = "POST" /\ apiCall.user = NoUser
    /\ apiCall.body.title = Undef
    /\ apiCall.resp.status = 401
    /\ apiCall.before # {} /\ db = apiCall.before

-----------------------------------------------------------------------------
(* Further properties of the request gate, checked under GateSpec *)

Served == gpc = "served"
InUpdateSession == gpc \in {"awaitGetUser", "returned"}

\* The exempt paths as the statement lists them: under _next/static or
\* _next/image, exactly /favicon.ico, or ending in an image extension.
ListedAsset(pathname) ==
    \/ StartsWith(pathname, "/_next/static")
    \/ StartsWith(pathname, "/_next/image")
    \/ pathname = "/favicon.ico"
    \/ \E ext \in ImageExtensions : EndsWith(pathname, ext)

C30_RedirectTargetAllowed ==
    (/\ Returned
     /\ prev.done /\ prev.kind = "redirect"
     /\ request.pathname = prev.location
     /\ gwOutcome.user = prev.user)
    => result.kind = "next"

C30_Witness ==
    /\ Returned
    /\ prev.done /\ prev.kind = "redirect" /\ prev.location = "/login"
    /\ prev.user = NoUser
    /\ request.pathname = "/login" /\ gwOutcome.user = NoUser
    /\ result.kind = "next"

=============================================================================
